---- MODULE Spec2Model ----
(***************************************************************************)
(* Model of src/src/nvtt/bc7/arvo/Rand.cpp: the three pseudo-random number *)
(* generators RandGen_1, RandGen_2, RandGen_3 (Seed, Eval, Eval(n,array))  *)
(* and RandGen::Perm.                                                      *)
(*                                                                         *)
(* "long" is modelled as the 32-bit signed type the algorithms were        *)
(* written for (Schrage's method exists to stay inside 32 bits); the seeds *)
(* the model draws keep every intermediate value inside that range, so no  *)
(* signed overflow (undefined behaviour) is exercised.                     *)
(*                                                                         *)
(* "float" results are modelled bit-exactly: the product long * double is  *)
(* rounded to a double (53 bits, round to nearest even) and then to a      *)
(* float (24 bits, round to nearest even).  A float is a record            *)
(* [neg, mant, exp] standing for (-1)^neg * mant * 2^exp, with             *)
(* 2^23 <= mant < 2^24 for a nonzero generator output.                     *)
(***************************************************************************)
EXTENDS Integers, Sequences, FiniteSets, TLC

----------------------------------------------------------------------------
(* C integer arithmetic *)

\* #define ABS( x ) ((x) > 0 ? (x) : -(x))
ABS(x) == IF x > 0 THEN x ELSE -x

\* C's "/" and "%" on long truncate toward zero (b > 0 everywhere here).
CDiv(a, b) == IF a >= 0 THEN a \div b ELSE -((-a) \div b)
CRem(a, b) == IF a >= 0 THEN a % b ELSE -((-a) % b)

RECURSIVE BitLen(_)
BitLen(n) == IF n = 0 THEN 0 ELSE 1 + BitLen(n \div 2)

----------------------------------------------------------------------------
(* IEEE-754 arithmetic: long * double -> double -> float *)

\* Multi-precision numbers are little-endian sequences of 14-bit limbs.
Limb == 2^14

\* A nonnegative long (< 2^31) as three limbs.
LimbsOf(a) == <<a % Limb, (a \div Limb) % Limb, a \div (Limb * Limb)>>

\* The share of limb i of a in column p (0-based) of the product of a and c.
Term(a, c, p, i) == IF p + 2 - i \in 1..4 THEN a[i] * c[p + 2 - i] ELSE 0

\* Column p of the schoolbook product of a (3 limbs) and c (4 limbs).
Column(a, c, p) == Term(a, c, p, 1) + Term(a, c, p, 2) + Term(a, c, p, 3)

\* The limbs p..6 of the product, t being column p plus the carry into it.
RECURSIVE Carry(_, _, _, _)
Carry(a, c, p, t) ==
    IF p = 6 THEN <<t % Limb>>
    ELSE <<t % Limb>> \o Carry(a, c, p + 1, Column(a, c, p + 1) + t \div Limb)

\* The exact product of a (3 limbs) and c (4 limbs): 7 limbs.
BigMul(a, c) == Carry(a, c, 0, Column(a, c, 0))

RECURSIVE TopLimb(_, _)
TopLimb(r, h) == IF h = 0 THEN 0 ELSE IF r[h] # 0 THEN h ELSE TopLimb(r, h - 1)

BitLenAt(r, h) == IF h = 0 THEN 0 ELSE (h - 1) * 14 + BitLen(r[h])

\* The number of significant bits of r.
BigBitLen(r) == BitLenAt(r, TopLimb(r, Len(r)))

\* The bits of (x * 2^shift) that fall into 0..w-1 (x a limb, shift of either sign).
PieceAt(x, shift, w) ==
    IF shift >= w \/ shift <= -14 THEN 0
    ELSE IF shift >= 0 THEN (x % 2^(w - shift)) * 2^shift
    ELSE (x \div 2^(-shift)) % 2^w

\* (r \div 2^lo) % 2^w, for r of 7 limbs and 0 <= w <= 30.
Field(r, lo, w) ==
    IF w <= 0 THEN 0
    ELSE PieceAt(r[1], -lo, w) + PieceAt(r[2], 14 - lo, w)
       + PieceAt(r[3], 28 - lo, w) + PieceAt(r[4], 42 - lo, w)
       + PieceAt(r[5], 56 - lo, w) + PieceAt(r[6], 70 - lo, w)
       + PieceAt(r[7], 84 - lo, w)

FZero == [neg |-> FALSE, mant |-> 0, exp |-> 0]

\* The double constants of Rand.cpp: value = (sum of limbs[i] * 2^(14(i-1))) * 2^exp,
\* the double nearest to the decimal literal (53 significant bits).
RM == [limbs |-> <<16157, 10836, 12915, 1503>>, exp |-> -72]      \* 1.400512E-6
Scale2 == [limbs |-> <<15121, 12260, 14571, 1677>>, exp |-> -66]  \* 1.00010001E-4
Scale3 == [limbs |-> <<8040, 113, 0, 1024>>, exp |-> -83]         \* 4.656612875E-10

\* The 53 kept bits of a double, as top (the leading 24) and mid (the next 29),
\* after rounding to nearest, ties to even: guard is the first dropped bit,
\* sticky says whether a later dropped bit is set.  A carry out of mid goes
\* into top (which may so reach 2^24).
DoubleOf(top, mid, guard, sticky) ==
    IF guard /\ (sticky \/ mid % 2 = 1)
    THEN IF mid + 1 = 2^29 THEN [top |-> top + 1, mid |-> 0]
         ELSE [top |-> top, mid |-> mid + 1]
    ELSE [top |-> top, mid |-> mid]

\* The exact product P of L >= 53 bits, rounded to a double.
ToDouble(P, L) ==
    DoubleOf(Field(P, L - 24, 24), Field(P, L - 53, 29),
             L >= 54 /\ Field(P, L - 54, 1) = 1,
             L >= 55 /\ Field(P, 0, L - 54) # 0)

\* The 24-bit mantissa of the float nearest to the double d, ties to even.
FloatMant(d) ==
    IF d.mid > 2^28 \/ (d.mid = 2^28 /\ d.top % 2 = 1) THEN d.top + 1 ELSE d.top

\* The float m * 2^e, m a mantissa in 2^23..2^24.
Normal(neg, m, e) ==
    IF m = 2^24 THEN [neg |-> neg, mant |-> 2^23, exp |-> e + 1]
    ELSE [neg |-> neg, mant |-> m, exp |-> e]

ProductToFloat(P, L, e, neg) == Normal(neg, FloatMant(ToDouble(P, L)), L - 24 + e)

\* The float that "x * c" yields for a long x (|x| < 2^31) and a double constant c:
\* the exact product (its length is at least the 53 bits of c) is rounded to 53
\* bits (the double product) and that to 24 bits (the conversion to float).
MulToFloat(x, c) ==
    IF x = 0 THEN FZero
    ELSE ProductToFloat(BigMul(LimbsOf(ABS(x)), c.limbs),
                        BigBitLen(BigMul(LimbsOf(ABS(x)), c.limbs)), c.exp, x < 0)

\* Comparisons of a float (normalised or zero) with 0 and 1.
FNegative(f) == f.neg /\ f.mant # 0
FAtLeastOne(f) == ~f.neg /\ f.mant # 0 /\ BitLen(f.mant) + f.exp >= 1

----------------------------------------------------------------------------
(* M E T H O D 1 *)

M1 == 714025
IA == 1366
IC == 150889

\* State of a RandGen_1: [index, seed, shuffle], shuffle[1..97] the active table
\* (slot 0 of the 98 is never addressed: the offset is clamped to 1..97).

\* float RandGen_1::Eval()
Eval1(g) ==
    LET o1     == 1 + CDiv(97 * g.index, M1)
        o2     == IF o1 > 97 THEN 97 ELSE o1
        offset == IF o2 < 1 THEN 1 ELSE o2
        elem   == g.shuffle[offset]
        seed   == CRem(IA * g.seed + IC, M1)
    IN  [state |-> [index   |-> elem,
                    seed    |-> seed,
                    shuffle |-> [g.shuffle EXCEPT ![offset] = seed]],
         out   |-> MulToFloat(elem, RM)]

\* The body of the loop of RandGen_1::Eval( int n, float *array ).  st holds the
\* members g, the loop counter i and the values written to array so far.
Eval1Body(st) ==
    LET o1     == 1 + CDiv(97 * st.g.index, M1)
        o2     == IF o1 > 97 THEN 97 ELSE o1
        offset == IF o2 < 1 THEN 1 ELSE o2
        index  == st.g.shuffle[offset]
        seed   == CRem(IA * st.g.seed + IC, M1)
    IN  [g     |-> [index   |-> index,
                    seed    |-> seed,
                    shuffle |-> [st.g.shuffle EXCEPT ![offset] = seed]],
         i     |-> st.i + 1,
         array |-> Append(st.array, MulToFloat(index, RM))]

\* The loop "for( int i = 0; i < n; i++ )" from the state st on.
RECURSIVE Eval1Loop(_, _)
Eval1Loop(st, n) ==
    IF st.i < n THEN Eval1Loop(Eval1Body(st), n) ELSE st

\* void RandGen_1::Eval( int n, float *array )
Eval1Array(g, n) ==
    LET st == Eval1Loop([g |-> g, i |-> 0, array |-> <<>>], n)
    IN  [state |-> st.g, out |-> st.array]

\* The loop of RandGen_1::Seed from iteration st.k on; st = [t, k, shuffle] holds
\* the local t, the loop counter and the table.
RECURSIVE Seed1Loop(_)
Seed1Loop(st) ==
    IF st.k <= 97
    THEN LET t == CRem(IA * st.t + IC, M1)
         IN  Seed1Loop([t |-> t, k |-> st.k + 1,
                        shuffle |-> [st.shuffle EXCEPT ![st.k] = ABS(t)]])
    ELSE st

\* void RandGen_1::Seed( long seed ).  The parameter is named like the member
\* "seed" and hides it: "seed = ABS( t )" assigns the parameter, so the member
\* keeps the value it had.
Seed1(g, seed) ==
    LET t0   == CRem(IC + ABS(seed) + 1, M1)
        loop == Seed1Loop([t |-> t0, k |-> 1, shuffle |-> g.shuffle])
        t    == CRem(IA * loop.t + IC, M1)
    IN  [index |-> ABS(t), seed |-> g.seed, shuffle |-> loop.shuffle]

----------------------------------------------------------------------------
(* M E T H O D 2 *)

\* State of a RandGen_2: [r, m, i, j].

\* float RandGen_2::Eval()
Eval2(g) ==
    LET m == IF g.m + 7 >= 9973 THEN g.m + 7 - 9871 ELSE g.m + 7
        i == IF g.i + 1907 >= 99991 THEN g.i + 1907 - 89989 ELSE g.i + 1907
        j == IF g.j + 73939 >= 224729 THEN g.j + 73939 - 96233 ELSE g.j + 73939
        r == CDiv(CRem(g.r * m + i + j, 100000), 10)
    IN  [state |-> [r |-> r, m |-> m, i |-> i, j |-> j],
         out   |-> MulToFloat(r, Scale2)]

\* The body of the loop of RandGen_2::Eval( int n, float *array ); st = [g, k, array].
Eval2Body(st) ==
    LET m == IF st.g.m + 7 >= 9973 THEN st.g.m + 7 - 9871 ELSE st.g.m + 7
        i == IF st.g.i + 1907 >= 99991 THEN st.g.i + 1907 - 89989
             ELSE st.g.i + 1907
        j == IF st.g.j + 73939 >= 224729 THEN st.g.j + 73939 - 96233
             ELSE st.g.j + 73939
        r == CDiv(CRem(st.g.r * m + i + j, 100000), 10)
    IN  [g     |-> [r |-> r, m |-> m, i |-> i, j |-> j],
         k     |-> st.k + 1,
         array |-> Append(st.array, MulToFloat(r, Scale2))]

\* The loop "for( register int k = 0; k < n; k++ )" from the state st on.
RECURSIVE Eval2Loop(_, _)
Eval2Loop(st, n) ==
    IF st.k < n THEN Eval2Loop(Eval2Body(st), n) ELSE st

\* void RandGen_2::Eval( int n, float *array )
Eval2Array(g, n) ==
    LET st == Eval2Loop([g |-> g, k |-> 0, array |-> <<>>], n)
    IN  [state |-> st.g, out |-> st.array]

\* void RandGen_2::Seed( long seed )
Seed2(g, seed) ==
    LET r == ABS(seed)
        m == ABS(seed * 7)
        i == ABS(seed * 11)
        j == ABS(seed * 13)
    IN  [r |-> r,
         m |-> IF m < 100 THEN m + 100 ELSE m,
         i |-> IF i < 10000 THEN i + 10000 ELSE i,
         j |-> IF j < 128000 THEN j + 128000 ELSE j]

----------------------------------------------------------------------------
(* M E T H O D 3 *)

A3 == 16807
P3 == 2147483647

\* State of a RandGen_3: [ix].  ix >= 0 after Seed, so ">> k" is the floor
\* division by 2^k, "& 0xFFFF" the remainder modulo 2^16 and "<< k" the
\* product with 2^k.

\* Eval3 with the correction "if( ix < 0 ) ix += P3" left out.
Eval3NoCorrection(g) ==
    LET xhi    == g.ix \div 2^16
        xalo   == (g.ix % 2^16) * A3
        leftlo == xalo \div 2^16
        fhi    == xhi * A3 + leftlo
        k      == fhi \div 2^15
        ix     == (((xalo - leftlo * 2^16) - P3) + (fhi - k * 2^15) * 2^16) + k
    IN  [state |-> [ix |-> ix], out |-> MulToFloat(ix, Scale3)]

\* float RandGen_3::Eval()
Eval3(g) ==
    LET xhi    == g.ix \div 2^16
        xalo   == (g.ix % 2^16) * A3
        leftlo == xalo \div 2^16
        fhi    == xhi * A3 + leftlo
        k      == fhi \div 2^15
        ix0    == (((xalo - leftlo * 2^16) - P3) + (fhi - k * 2^15) * 2^16) + k
        ix     == IF ix0 < 0 THEN ix0 + P3 ELSE ix0
    IN  [state |-> [ix |-> ix], out |-> MulToFloat(ix, Scale3)]

\* The body of the loop of RandGen_3::Eval( int n, float *array ); st = [g, i, array].
Eval3Body(st) ==
    LET xhi    == st.g.ix \div 2^16
        xalo   == (st.g.ix % 2^16) * A3
        leftlo == xalo \div 2^16
        fhi    == xhi * A3 + leftlo
        k      == fhi \div 2^15
        ix0    == (((xalo - leftlo * 2^16) - P3) + (fhi - k * 2^15) * 2^16) + k
        ix     == IF ix0 < 0 THEN ix0 + P3 ELSE ix0
    IN  [g     |-> [ix |-> ix],
         i     |-> st.i + 1,
         array |-> Append(st.array, MulToFloat(ix, Scale3))]

\* The loop "for( register int i = 0; i < n; i++ )" from the state st on.
RECURSIVE Eval3Loop(_, _)
Eval3Loop(st, n) ==
    IF st.i < n THEN Eval3Loop(Eval3Body(st), n) ELSE st

\* Eval3Array with the loop test "i <= n": one value too many.
Eval3ArrayOneMore(g, n) ==
    LET st == Eval3Loop([g |-> g, i |-> 0, array |-> <<>>], n + 1)
    IN  [state |-> st.g, out |-> st.array]

\* void RandGen_3::Eval( int n, float *array )
Eval3Array(g, n) ==
    LET st == Eval3Loop([g |-> g, i |-> 0, array |-> <<>>], n)
    IN  [state |-> st.g, out |-> st.array]

\* void RandGen_3::Seed( long seed )
Seed3(g, seed) == [ix |-> ABS(seed)]

----------------------------------------------------------------------------
(* The virtual functions of RandGen, dispatched on the concrete class v. *)

SeedOf(v, g, seed) ==
    CASE v = 1 -> Seed1(g, seed) [] v = 2 -> Seed2(g, seed) [] v = 3 -> Seed3(g, seed)

EvalOf(v, g) ==
    CASE v = 1 -> Eval1(g) [] v = 2 -> Eval2(g) [] v = 3 -> Eval3(g)

EvalArrayOf(v, g, n) ==
    CASE v = 1 -> Eval1Array(g, n) [] v = 2 -> Eval2Array(g, n)
      [] v = 3 -> Eval3Array(g, n)

----------------------------------------------------------------------------
(* R A N D : : P E R M *)

Nmax == 20

\* float r = ( i + 1 ) * R[ n++ ]: the int is converted to float (exactly, it is
\* small) and the product of the two floats is rounded to a float.
FMulInt(n, f) ==
    LET p == n * f.mant
        d == BitLen(p) - 24
        q == p \div 2^d
        rem  == p % 2^d
        half == 2^(d - 1)
        up   == rem > half \/ (rem = half /\ q % 2 = 1)
    IN  IF d <= 0 THEN [neg |-> f.neg, mant |-> p, exp |-> f.exp]
        ELSE [neg |-> f.neg, mant |-> IF up THEN q + 1 ELSE q, exp |-> f.exp + d]

\* int k = (int)r: truncation toward zero.
FTruncToInt(f) ==
    LET mag == IF f.exp >= 0 THEN f.mant * 2^f.exp
               ELSE IF -f.exp > 30 THEN 0
               ELSE f.mant \div 2^(-f.exp)
    IN  IF f.neg THEN -mag ELSE mag

\* BatchSize with every refill asking for a full buffer.
BatchSizeFull(L) == Nmax

\* N = ( L < Nmax ) ? L : Nmax
BatchSize(L) == IF L < Nmax THEN L ELSE Nmax

\* The locals of Perm and the generator are held in a record st: g the
\* generator's members, perm the array (indices 0..len-1), R the buffer, i, L,
\* N, n as in the code; and, recorded for the properties, calls (the N of each
\* Eval( N, R )), vals (the values those calls wrote), badRead (a read of a
\* slot R[n] that the latest refill did not write) and oob (an access to
\* perm[k] with k < 0).

\* Eval( N, R ) has returned ev: L -= N; n = 0.
PermStore(st, N, ev) ==
    [st EXCEPT !.g = ev.state,
               !.R = [q \in 0..(Nmax - 1) |->
                         IF q < N THEN ev.out[q + 1] ELSE st.R[q]],
               !.L = st.L - N,
               !.N = N,
               !.n = 0,
               !.calls = Append(@, N),
               !.vals = @ \o ev.out]

\* The refill "if( n == N ) { ... }", with N as computed.
PermRefillBy(v, st, N) == PermStore(st, N, EvalArrayOf(v, st.g, N))

PermRefill(v, st) ==
    IF st.n = st.N THEN PermRefillBy(v, st, BatchSize(st.L)) ELSE st

\* "if( k < i ) swap", then n++ and the loop's i--.  perm[k] with k < 0 lies
\* outside the array: the value read there is junk, and the store changes no
\* element of perm.
PermSwap(st, k, junk) ==
    [st EXCEPT !.perm = IF k < st.i
                        THEN IF k >= 0
                             THEN [@ EXCEPT ![st.i] = st.perm[k], ![k] = st.perm[st.i]]
                             ELSE [@ EXCEPT ![st.i] = junk]
                        ELSE @,
               !.n = @ + 1,
               !.i = @ - 1,
               !.badRead = @ \/ st.n >= st.N,
               !.oob = @ \/ (k < st.i /\ k < 0)]

\* float r = ( i + 1 ) * R[ n++ ]; int k = (int)r; ...
PermPick(st, junk) ==
    PermSwap(st, FTruncToInt(FMulInt(st.i + 1, st.R[st.n])), junk)

\* The body of the second loop of Perm.
PermBody(v, st, junk) == PermPick(PermRefill(v, st), junk)

\* The loop "for( int i = len - 1; i > 0; i-- )" from the state st on.
RECURSIVE PermLoop(_, _, _)
PermLoop(v, st, junk) ==
    IF st.i > 0 THEN PermLoop(v, PermBody(v, st, junk), junk) ELSE st

\* void RandGen::Perm( int len, int perm[] ) on a generator of class v with
\* members g.
PermOf(v, g, len, junk) ==
    PermLoop(v,
             [g       |-> g,
              perm    |-> [j \in 0..(len - 1) |-> j],
              R       |-> [q \in 0..(Nmax - 1) |-> FZero],
              i       |-> len - 1,
              L       |-> len - 1,
              N       |-> 0,
              n       |-> 0,
              calls   |-> <<>>,
              vals    |-> <<>>,
              badRead |-> FALSE,
              oob     |-> FALSE],
             junk)

----------------------------------------------------------------------------
(* The state machine *)

\* Bounds of the model.
MaxDraws == 3        \* values one generator yields by Eval / Eval(n, array)
MaxBatch == 2        \* largest n of Eval(n, array)
MaxPairDraws == 3    \* values per generator when two run side by side
MaxLen == 22         \* largest len of Perm
MaxPermPre == 1      \* values a generator has yielded before a Perm

\* The seeds Seed is called with.  Those of RandGen_2 keep seed * 13 and the
\* first r * m inside 32 bits.
Seeds1 == {0, -1, 21}
Seeds2 == {0, -7, 1425, 4597, 10000}
Seeds3 == {0, 1, -65536, 739806647, 2147483646, 2147483647}
SeedsOf(v) == CASE v = 1 -> Seeds1 [] v = 2 -> Seeds2 [] v = 3 -> Seeds3

\* Values a long that nothing has assigned may hold.
Indeterminate == {1, -1000}

\* What a read of an int outside its array may yield.
Junk == {-1, 0}

Inst == {"a", "b"}

VARIABLES
    variant,   \* the concrete class of the generators: 1, 2, 3 for RandGen_1, _2, _3
    gen,       \* gen[I]: the member variables of generator I
    seeded,    \* seeded[I]: Seed has been called on I
    lastSeed,  \* lastSeed[I]: the argument of the latest Seed on I
    outs,      \* outs[I]: the values I has yielded since its latest Seed
    draws,     \* draws[I]: the number of values I has yielded in all
    last,      \* the latest call: [op, inst, arg, before, out]
    perm       \* the latest Perm: [len, out, calls, badRead, oob]

vars == <<variant, gen, seeded, lastSeed, outs, draws, last, perm>>

\* The members of a newly constructed generator: nothing in Rand.cpp assigns
\* them before Seed does.
Fresh(v, u) ==
    CASE v = 1 -> [index |-> u, seed |-> u, shuffle |-> [k \in 1..97 |-> u]]
      [] v = 2 -> [r |-> u, m |-> u, i |-> u, j |-> u]
      [] v = 3 -> [ix |-> u]

\* Newly constructed generators of one class, their members holding u.
Init ==
    \E u \in Indeterminate :
        /\ variant \in 1..3
        /\ gen = [I \in Inst |-> Fresh(variant, u)]
        /\ seeded = [I \in Inst |-> FALSE]
        /\ lastSeed = [I \in Inst |-> 0]
        /\ outs = [I \in Inst |-> <<>>]
        /\ draws = [I \in Inst |-> 0]
        /\ last = [op |-> "new", inst |-> "a", arg |-> 0, before |-> <<>>,
                   out |-> <<>>]
        /\ perm = [len |-> 0, out |-> <<>>, calls |-> <<>>, badRead |-> FALSE,
                   oob |-> FALSE]

\* I.Seed( s ); max bounds the values I has yielded before.
Seed(I, s, max) ==
    /\ draws[I] <= max
    /\ gen' = [gen EXCEPT ![I] = SeedOf(variant, gen[I], s)]
    /\ seeded' = [seeded EXCEPT ![I] = TRUE]
    /\ lastSeed' = [lastSeed EXCEPT ![I] = s]
    /\ outs' = [outs EXCEPT ![I] = <<>>]
    /\ last' = [op |-> "Seed", inst |-> I, arg |-> s, before |-> <<>>,
                out |-> <<>>]
    /\ UNCHANGED <<variant, draws, perm>>

\* The generator I has yielded the values e.out and is left in e.state.
Yield(I, e, op, arg) ==
    /\ gen' = [gen EXCEPT ![I] = e.state]
    /\ outs' = [outs EXCEPT ![I] = @ \o e.out]
    /\ draws' = [draws EXCEPT ![I] = @ + Len(e.out)]
    /\ last' = [op |-> op, inst |-> I, arg |-> arg, before |-> gen[I],
                out |-> e.out]

OneValue(e) == [state |-> e.state, out |-> <<e.out>>]

\* I.Eval(), on a seeded generator
Eval(I, max) ==
    /\ seeded[I]
    /\ draws[I] < max
    /\ Yield(I, OneValue(EvalOf(variant, gen[I])), "Eval", 1)
    /\ UNCHANGED <<variant, seeded, lastSeed, perm>>

\* I.Eval( n, array ), on a seeded generator
EvalArray(I, n) ==
    /\ seeded[I]
    /\ draws[I] + n <= MaxDraws
    /\ Yield(I, EvalArrayOf(variant, gen[I], n), "EvalArray", n)
    /\ UNCHANGED <<variant, seeded, lastSeed, perm>>

\* Perm has returned with the locals p.
Permuted(I, len, p) ==
    /\ Yield(I, [state |-> p.g, out |-> p.vals], "Perm", len)
    /\ perm' = [len |-> len, out |-> p.perm, calls |-> p.calls,
                badRead |-> p.badRead, oob |-> p.oob]

\* I.Perm( len, out ), on a seeded generator that Seed and Eval have brought
\* to its state
Perm(I, len, junk) ==
    /\ seeded[I]
    /\ draws[I] <= MaxPermPre
    /\ last.op # "Perm"
    /\ Permuted(I, len, PermOf(variant, gen[I], len, junk))
    /\ UNCHANGED <<variant, seeded, lastSeed>>

\* One generator, drawn from one value or one array at a time.
Next ==
    \/ \E s \in SeedsOf(variant) : Seed("a", s, MaxDraws)
    \/ Eval("a", MaxDraws)
    \/ \E n \in 0..MaxBatch : EvalArray("a", n)

Spec == Init /\ [][Next]_vars

\* Two generators of the same class side by side.
NextPair ==
    \/ \E I \in Inst, s \in SeedsOf(variant) : Seed(I, s, MaxPairDraws)
    \/ \E I \in Inst : Eval(I, MaxPairDraws)

SpecPair == Init /\ [][NextPair]_vars

\* One generator that fills permutations.
NextPerm ==
    \/ \E s \in SeedsOf(variant) : Seed("a", s, MaxPermPre)
    \/ Eval("a", MaxPermPre)
    \/ \E len \in (-1)..MaxLen, junk \in Junk : Perm("a", len, junk)

SpecPerm == Init /\ [][NextPerm]_vars

----------------------------------------------------------------------------
(* P R O P E R T I E S *)

\* The values a and b yielded since their latest Seed agree as far as both go.
SamePrefix(a, b) ==
    \A k \in 1..Len(a) : k <= Len(b) => a[k] = b[k]

\* C1: two generators of the same class, whatever their states before, that
\* were both last seeded with the same value have yielded the same values
\* since (SpecPair).
SeedDeterminism ==
    (seeded["a"] /\ seeded["b"] /\ lastSeed["a"] = lastSeed["b"])
        => SamePrefix(outs["a"], outs["b"])

\* n successive calls of the scalar Eval(), from the state and values in acc.
ScalarNext(acc, e) == [state |-> e.state, out |-> Append(acc.out, e.out)]

RECURSIVE ScalarRun(_, _, _)
ScalarRun(v, acc, n) ==
    IF n <= 0 THEN acc
    ELSE ScalarRun(v, ScalarNext(acc, EvalOf(v, acc.state)), n - 1)

\* C2: Eval( n, array ) writes the n values that n successive calls of Eval()
\* return from the same state, and leaves the generator in the same state as
\* they do; with n = 0 it writes nothing and leaves the state as it was (Spec).
BatchEqualsScalar ==
    last.op = "EvalArray" =>
        /\ ScalarRun(variant, [state |-> last.before, out |-> <<>>], last.arg)
              = [state |-> gen["a"], out |-> last.out]
        /\ last.arg = 0 => (last.out = <<>> /\ gen["a"] = last.before)

\* An array call of two values has returned.
BatchEqualsScalarWitness ==
    /\ last.op = "EvalArray"
    /\ last.arg = MaxBatch
    /\ Len(last.out) = MaxBatch
    /\ gen["a"] # last.before

\* C3: after Perm( len, out ), out[0..len-1] holds every integer of 0..len-1
\* exactly once, and nothing outside the array has been accessed; for len <= 1
\* it is the identity (SpecPerm).
PermIsPermutation ==
    last.op = "Perm" =>
        /\ ~perm.oob
        /\ DOMAIN perm.out = 0..(perm.len - 1)
        /\ {perm.out[q] : q \in DOMAIN perm.out} = 0..(perm.len - 1)
        /\ perm.len = 1 => perm.out[0] = 0

\* C4: every value a seeded generator yields is a float f with 0 <= f < 1 (Spec).
OutputsInUnitInterval ==
    \A k \in 1..Len(outs["a"]) :
        ~FNegative(outs["a"][k]) /\ ~FAtLeastOne(outs["a"][k])

\* C5: after Seed and any number of Evals, a RandGen_2 has 100 <= m < 9973,
\* 10000 <= i < 99991 and 128000 <= j < 224729 (Spec).
Method2Ranges ==
    (variant = 2 /\ seeded["a"]) =>
        /\ 100 <= gen["a"].m /\ gen["a"].m < 9973
        /\ 10000 <= gen["a"].i /\ gen["a"].i < 99991
        /\ 128000 <= gen["a"].j /\ gen["a"].j < 224729

\* C6: after Seed and any number of Evals, every entry shuffle[1..97] of a
\* RandGen_1 is nonnegative (Spec).
ShuffleNonNegative ==
    (variant = 1 /\ seeded["a"]) =>
        \A k \in 1..97 : gen["a"].shuffle[k] >= 0

\* The sequence t_1 .. t_98 of C7, from t_0 = (150889 + |s| + 1) mod 714025.
RECURSIVE TSeq(_)
TSeq(acc) ==
    IF Len(acc) = 98 THEN acc
    ELSE TSeq(Append(acc, (1366 * acc[Len(acc)] + 150889) % 714025))

TSeqOf(s) == TSeq(<<(1366 * ((150889 + ABS(s) + 1) % 714025) + 150889) % 714025>>)

SeedTable(g, t) ==
    /\ \A k \in 1..97 : g.shuffle[k] = ABS(t[k])
    /\ g.seed = ABS(t[98])
    /\ g.index = ABS(t[98])

\* C7: after RandGen_1::Seed( s ), shuffle[k] = |t_k| for k in 1..97, and the
\* members seed and index both equal |t_98| (Spec).
Seed1SetsAll ==
    (variant = 1 /\ last.op = "Seed") => SeedTable(gen["a"], TSeqOf(last.arg))

\* C8: after Seed and any number of Evals, a RandGen_3 has 0 <= ix <= 2^31 - 2
\* (Spec).
Method3Range ==
    (variant = 3 /\ seeded["a"]) =>
        (0 <= gen["a"].ix /\ gen["a"].ix <= 2147483646)

\* (u + w) mod p and (a * x) mod p for 0 <= u, w, x < p, by additions that
\* stay below 2p.
AddMod(u, w, p) == IF u >= p - w THEN u - (p - w) ELSE u + w

RECURSIVE MulMod(_, _, _)
MulModStep(h, a, x, p) == AddMod(AddMod(h, h, p), (a % 2) * x, p)
MulMod(a, x, p) ==
    IF a = 0 THEN 0 ELSE MulModStep(MulMod(a \div 2, x, p), a, x, p)

\* C9: RandGen_3::Eval() leaves ix = (16807 * ix) mod 2147483647, ix on the
\* right being the value before the call; after Seed( 1 ) the first Eval()
\* leaves ix = 16807 (Spec).
SchrageIsMulMod ==
    (variant = 3 /\ last.op = "Eval") =>
        /\ gen["a"].ix = MulMod(16807, last.before.ix % 2147483647, 2147483647)
        /\ last.before.ix = 1 => gen["a"].ix = 16807

\* The first Eval() after Seed( 1 ) has returned.
SchrageIsMulModWitness ==
    /\ variant = 3
    /\ last.op = "Eval"
    /\ lastSeed["a"] = 1
    /\ last.before.ix = 1
    /\ gen["a"].ix = 16807

RECURSIVE SeqSum(_)
SeqSum(q) == IF q = <<>> THEN 0 ELSE Head(q) + SeqSum(Tail(q))

\* C10: Perm( len, out ) draws exactly max(len - 1, 0) values, by calls
\* Eval( N, R ) with 1 <= N <= 20, and reads no slot of R that the latest
\* such call did not write; for len <= 1 it calls no Eval and leaves the
\* generator as it was (SpecPerm).
PermDraws ==
    last.op = "Perm" =>
        /\ SeqSum(perm.calls) = IF perm.len > 1 THEN perm.len - 1 ELSE 0
        /\ Len(last.out) = SeqSum(perm.calls)
        /\ \A c \in 1..Len(perm.calls) : 1 <= perm.calls[c] /\ perm.calls[c] <= 20
        /\ ~perm.badRead
        /\ perm.len <= 1 => (perm.calls = <<>> /\ gen["a"] = last.before)

\* A Perm that refilled its buffer: a full batch and then the rest.
PermDrawsWitness ==
    /\ last.op = "Perm"
    /\ perm.len = Nmax + 2
    /\ perm.calls = <<Nmax, 1>>
    /\ gen["a"] # last.before

====
